---- MODULE Spec2Model ----
(***************************************************************************)
(* Zero-knowledge state sync: the envelope codec of zk-crypto.js and the   *)
(* debounced save / fallback load client of state-sync.js.                 *)
(*                                                                         *)
(* Strings are sequences of UTF-16 code units, byte arrays are sequences   *)
(* of 0..255.  JavaScript values are tagged records.  A call that may      *)
(* throw returns [ok |-> TRUE, val |-> v] or [ok |-> FALSE, err |-> e].    *)
(* The primitives of crypto.subtle are modelled as collision-free          *)
(* functions: an output is a length-prefixed serialisation of the inputs.  *)
(***************************************************************************)
EXTENDS Integers, Sequences, FiniteSets, TLC

VARIABLES
    codec,          \* one run of the codec operations on drawn inputs
    now,            \* Date.now()
    remote,         \* the store: id -> [latest, versions, listing]
    debounceTimers, \* state-sync.js: Map id -> timer handle
    timers,         \* setTimeout handles, each with its callback's closure and run
    load,           \* the loadState run
    loadFaults      \* whether a load may meet a failing platform or GET request

----------------------------------------------------------------------------
(* JavaScript values *)

Null == [t |-> "null"]
Undef == [t |-> "undefined"]
Bool(b) == [t |-> "boolean", b |-> b]
Num(n) == [t |-> "number", n |-> n]
Str(s) == [t |-> "string", s |-> s]
Arr(a) == [t |-> "array", a |-> a]
\* an object is the sequence of its <<key, value>> entries in insertion order
Obj(o) == [t |-> "object", o |-> o]

Ok(v) == [ok |-> TRUE, val |-> v]
\* an exception: message is a sequence of text fragments
Throw(name, message) == [ok |-> FALSE, err |-> [name |-> name, message |-> message]]

typeof(x) ==
    IF x.t \in {"null", "array", "object"} THEN "object" ELSE x.t

Falsy(x) ==
    \/ x.t \in {"null", "undefined"}
    \/ x.t = "boolean" /\ ~x.b
    \/ x.t = "number" /\ x.n = 0
    \/ x.t = "string" /\ x.s = <<>>

\* property read x.k of an object (own properties only)
Get(x, k) ==
    IF x.t = "object" /\ \E i \in 1..Len(x.o) : x.o[i][1] = k
    THEN x.o[CHOOSE i \in 1..Len(x.o) : x.o[i][1] = k][2]
    ELSE Undef

\* String.prototype.includes on fragment sequences
includes(message, fragment) == \E i \in 1..Len(message) : message[i] = fragment

\* evaluates v once and hands the value to F
Bind(v, F(_)) == CHOOSE r \in {F(x) : x \in {v}} : TRUE

Replace(str, a, b) ==
    Bind(str, LAMBDA s : [i \in 1..Len(s) |-> IF s[i] = a THEN b ELSE s[i]])
Remove(s, c) == SelectSeq(s, LAMBDA x : x # c)
Repeat(c, n) == [i \in 1..n |-> c]

----------------------------------------------------------------------------
(* base64url *)

B64Char(i) ==
    IF i < 26 THEN 65 + i
    ELSE IF i < 52 THEN 97 + (i - 26)
    ELSE IF i < 62 THEN 48 + (i - 52)
    ELSE IF i = 62 THEN 43 ELSE 47

B64Val(c) ==
    IF c >= 65 /\ c <= 90 THEN c - 65
    ELSE IF c >= 97 /\ c <= 122 THEN c - 97 + 26
    ELSE IF c >= 48 /\ c <= 57 THEN c - 48 + 52
    ELSE IF c = 43 THEN 62
    ELSE IF c = 47 THEN 63 ELSE -1

\* window.btoa: character j of the output, from the three bytes of its group
btoa(data) ==
    Bind(data, LAMBDA bytes :
        LET n == Len(bytes)
            At(k) == IF k <= n THEN bytes[k] ELSE 0
            Char(j) ==
                LET g == 3 * ((j - 1) \div 4)
                    pos == (j - 1) % 4
                IN  IF pos = 0 THEN B64Char(At(g + 1) \div 4)
                    ELSE IF pos = 1
                    THEN B64Char((At(g + 1) % 4) * 16 + At(g + 2) \div 16)
                    ELSE IF pos = 2
                    THEN (IF g + 2 > n THEN 61
                          ELSE B64Char((At(g + 2) % 16) * 4 + At(g + 3) \div 64))
                    ELSE (IF g + 3 > n THEN 61 ELSE B64Char(At(g + 3) % 64))
        IN  [j \in 1..(4 * ((n + 2) \div 3)) |-> Char(j)])

\* byte j of the bytes a run of sextets holds; trailing bits are dropped
DecodeSextets(sextets) ==
    Bind(sextets, LAMBDA v :
        LET Byte(j) ==
                LET g == 4 * ((j - 1) \div 3)
                    pos == (j - 1) % 3
                IN  IF pos = 0 THEN v[g + 1] * 4 + v[g + 2] \div 16
                    ELSE IF pos = 1 THEN (v[g + 2] % 16) * 16 + v[g + 3] \div 4
                    ELSE (v[g + 3] % 4) * 64 + v[g + 4]
        IN  [j \in 1..((Len(v) * 3) \div 4) |-> Byte(j)])

\* the forgiving-base64 decode of window.atob: whitespace is dropped, then the
\* padding of a string whose length is a multiple of four
atob(data) ==
    Bind(SelectSeq(data, LAMBDA c : c \notin {9, 10, 12, 13, 32}), LAMBDA d1 :
    Bind(IF Len(d1) % 4 = 0 /\ Len(d1) >= 1 /\ d1[Len(d1)] = 61
         THEN IF Len(d1) >= 2 /\ d1[Len(d1) - 1] = 61
              THEN SubSeq(d1, 1, Len(d1) - 2) ELSE SubSeq(d1, 1, Len(d1) - 1)
         ELSE d1, LAMBDA d2 :
        IF Len(d2) % 4 = 1 \/ \E i \in 1..Len(d2) : B64Val(d2[i]) < 0
        THEN Throw("InvalidCharacterError",
                   <<"The string to be decoded is not correctly encoded">>)
        ELSE Ok(DecodeSextets([i \in 1..Len(d2) |-> B64Val(d2[i])]))))

base64urlEncode(bytes) ==
    Remove(Replace(Replace(btoa(bytes), 43, 45), 47, 95), 61)

base64urlDecode(str) ==
    Bind(Replace(Replace(str, 45, 43), 95, 47), LAMBDA base64 :
        atob(base64 \o Repeat(61, (4 - (Len(base64) % 4)) % 4)))

concatUint8Arrays(list) ==
    Bind(list, LAMBDA arrays :
        LET RECURSIVE Cat(_)
            Cat(i) == IF i > Len(arrays) THEN <<>> ELSE arrays[i] \o Cat(i + 1)
        IN  Cat(1))

----------------------------------------------------------------------------
(* TextEncoder / TextDecoder (UTF-8) *)

\* a lone surrogate encodes as U+FFFD; the inputs hold no surrogate pairs
TextEncode(str) ==
    Bind(str, LAMBDA s :
        LET Unit(c) ==
                IF c < 128 THEN <<c>>
                ELSE IF c < 2048 THEN <<192 + c \div 64, 128 + (c % 64)>>
                ELSE IF c >= 55296 /\ c < 57344 THEN <<239, 191, 189>>
                ELSE <<224 + c \div 4096, 128 + ((c \div 64) % 64), 128 + (c % 64)>>
            RECURSIVE Enc(_)
            Enc(i) == IF i > Len(s) THEN <<>> ELSE Unit(s[i]) \o Enc(i + 1)
        IN  Enc(1))

IsCont(b) == b >= 128 /\ b < 192

\* one- to three-byte sequences; a byte that starts no well-formed sequence
\* decodes to U+FFFD
Utf8Decode(data) ==
    Bind(data, LAMBDA b :
        LET n == Len(b)
            Two(i) == (b[i] - 192) * 64 + (b[i + 1] - 128)
            Three(i) == (b[i] - 224) * 4096 + (b[i + 1] - 128) * 64 + (b[i + 2] - 128)
            RECURSIVE Dec(_)
            Dec(i) ==
                IF i > n THEN <<>>
                ELSE IF b[i] < 128 THEN <<b[i]>> \o Dec(i + 1)
                ELSE IF b[i] >= 194 /\ b[i] < 224 /\ i + 1 <= n /\ IsCont(b[i + 1])
                THEN <<Two(i)>> \o Dec(i + 2)
                ELSE IF /\ b[i] >= 224 /\ b[i] < 240 /\ i + 2 <= n
                        /\ IsCont(b[i + 1]) /\ IsCont(b[i + 2])
                        /\ Three(i) >= 2048 /\ (Three(i) < 55296 \/ Three(i) >= 57344)
                THEN <<Three(i)>> \o Dec(i + 3)
                ELSE <<65533>> \o Dec(i + 1)
        IN  Dec(1))

\* new TextDecoder().decode: a leading BOM is dropped
TextDecode(bytes) ==
    Bind(Utf8Decode(bytes), LAMBDA s :
        IF s # <<>> /\ s[1] = 65279 THEN Tail(s) ELSE s)

----------------------------------------------------------------------------
(* JSON.stringify / JSON.parse on integers, strings, arrays and objects *)

RECURSIVE Digits(_)
Digits(n) == IF n < 10 THEN <<48 + n>> ELSE Digits(n \div 10) \o <<48 + (n % 10)>>

NumberToString(n) == IF n < 0 THEN <<45>> \o Digits(0 - n) ELSE Digits(n)

HexDigit(d) == IF d < 10 THEN 48 + d ELSE 97 + (d - 10)

\* a variant of QuoteChar that escapes nothing
QuoteCharRaw(c) == <<c>>

QuoteChar(c) ==
    IF c = 34 THEN <<92, 34>>
    ELSE IF c = 92 THEN <<92, 92>>
    ELSE IF c = 8 THEN <<92, 98>>
    ELSE IF c = 9 THEN <<92, 116>>
    ELSE IF c = 10 THEN <<92, 110>>
    ELSE IF c = 12 THEN <<92, 102>>
    ELSE IF c = 13 THEN <<92, 114>>
    ELSE IF c < 32 THEN <<92, 117, 48, 48, HexDigit(c \div 16), HexDigit(c % 16)>>
    ELSE <<c>>

\* a string none of whose characters is escaped is quoted as it stands
Quote(str) ==
    Bind(str, LAMBDA s :
        LET RECURSIVE Q(_)
            Q(i) == IF i > Len(s) THEN <<>> ELSE QuoteChar(s[i]) \o Q(i + 1)
        IN  IF \A i \in 1..Len(s) : s[i] >= 32 /\ s[i] # 34 /\ s[i] # 92
            THEN <<34>> \o s \o <<34>>
            ELSE <<34>> \o Q(1) \o <<34>>)

\* the text of a value; <<>> marks a value JSON.stringify leaves out (undefined)
RECURSIVE SerializeJSON(_)
SerializeJSON(value) ==
    Bind(value, LAMBDA x :
        IF x.t = "null" THEN <<110, 117, 108, 108>>
        ELSE IF x.t = "boolean"
        THEN (IF x.b THEN <<116, 114, 117, 101>> ELSE <<102, 97, 108, 115, 101>>)
        ELSE IF x.t = "number" THEN NumberToString(x.n)
        ELSE IF x.t = "string" THEN Quote(x.s)
        ELSE IF x.t = "array"
        THEN LET RECURSIVE El(_)
                 El(i) ==
                     IF i > Len(x.a) THEN <<>>
                     ELSE (IF i > 1 THEN <<44>> ELSE <<>>)
                          \o (IF x.a[i].t = "undefined" THEN <<110, 117, 108, 108>>
                              ELSE SerializeJSON(x.a[i]))
                          \o El(i + 1)
             IN  <<91>> \o El(1) \o <<93>>
        ELSE IF x.t = "object"
        THEN Bind(SelectSeq(x.o, LAMBDA e : e[2].t # "undefined"), LAMBDA kept :
                 LET RECURSIVE Mem(_)
                     Mem(i) ==
                         IF i > Len(kept) THEN <<>>
                         ELSE (IF i > 1 THEN <<44>> ELSE <<>>)
                              \o Quote(kept[i][1]) \o <<58>>
                              \o SerializeJSON(kept[i][2]) \o Mem(i + 1)
                 IN  <<123>> \o Mem(1) \o <<125>>)
        ELSE <<>>)

JSONstringify(x) == IF x.t = "undefined" THEN Undef ELSE Str(SerializeJSON(x))

\* TextEncoder.encode(x): an undefined argument encodes as the empty string
encode(x) == IF x.t = "undefined" THEN <<>> ELSE TextEncode(x.s)

ParseFail == [ok |-> FALSE]
Parsed(v, i) == [ok |-> TRUE, v |-> v, i |-> i]

IsWs(c) == c \in {9, 10, 13, 32}
IsDigit(c) == c >= 48 /\ c <= 57

RECURSIVE SkipWs(_, _)
SkipWs(s, i) == IF i <= Len(s) /\ IsWs(s[i]) THEN SkipWs(s, i + 1) ELSE i

Match(s, i, lit) ==
    i + Len(lit) - 1 <= Len(s) /\ SubSeq(s, i, i + Len(lit) - 1) = lit

HexVal(c) ==
    IF IsDigit(c) THEN c - 48
    ELSE IF c >= 97 /\ c <= 102 THEN c - 87
    ELSE IF c >= 65 /\ c <= 70 THEN c - 55 ELSE -1

RECURSIVE ParseDigits(_, _, _)
ParseDigits(s, i, acc) ==
    IF i <= Len(s) /\ IsDigit(s[i])
    THEN ParseDigits(s, i + 1, acc * 10 + (s[i] - 48))
    ELSE Parsed(acc, i)

\* an integer literal: -? (0 | [1-9][0-9]*), not followed by a fraction or exponent
ParseNumber(s, i) ==
    LET neg == s[i] = 45
        j == IF neg THEN i + 1 ELSE i
    IN  IF j > Len(s) \/ ~IsDigit(s[j]) THEN ParseFail
        ELSE Bind(IF s[j] = 48 THEN Parsed(0, j + 1) ELSE ParseDigits(s, j, 0),
                  LAMBDA d :
                 IF d.i <= Len(s) /\ (IsDigit(s[d.i]) \/ s[d.i] \in {46, 69, 101})
                 THEN ParseFail
                 ELSE Parsed(Num(IF neg THEN 0 - d.v ELSE d.v), d.i))

\* the end of the run of characters from i that stand for themselves
RunEnd(s, i) ==
    Bind({j \in i..Len(s) : s[j] = 34 \/ s[j] = 92 \/ s[j] < 32}, LAMBDA stops :
        IF stops = {} THEN Len(s) + 1
        ELSE CHOOSE j \in stops : \A k \in stops : j <= k)

\* the characters of a string literal from i up to its closing quote
RECURSIVE ParseChars(_, _, _)
ParseChars(s, i, acc) ==
    IF i > Len(s) \/ s[i] < 32 THEN ParseFail
    ELSE IF s[i] = 34 THEN Parsed(acc, i + 1)
    ELSE IF s[i] # 92
    THEN Bind(RunEnd(s, i), LAMBDA j : ParseChars(s, j, acc \o SubSeq(s, i, j - 1)))
    ELSE IF i + 1 > Len(s) THEN ParseFail
    ELSE LET e == s[i + 1]
         IN  IF e \in {34, 92, 47} THEN ParseChars(s, i + 2, Append(acc, e))
             ELSE IF e = 98 THEN ParseChars(s, i + 2, Append(acc, 8))
             ELSE IF e = 102 THEN ParseChars(s, i + 2, Append(acc, 12))
             ELSE IF e = 110 THEN ParseChars(s, i + 2, Append(acc, 10))
             ELSE IF e = 114 THEN ParseChars(s, i + 2, Append(acc, 13))
             ELSE IF e = 116 THEN ParseChars(s, i + 2, Append(acc, 9))
             ELSE IF e = 117 /\ i + 5 <= Len(s)
                     /\ \A k \in 2..5 : HexVal(s[i + k]) >= 0
             THEN ParseChars(s, i + 6,
                      Append(acc, HexVal(s[i + 2]) * 4096 + HexVal(s[i + 3]) * 256
                                  + HexVal(s[i + 4]) * 16 + HexVal(s[i + 5])))
             ELSE ParseFail

\* defining a property: a repeated key keeps its place and takes the new value
SetMember(o, k, v) ==
    IF \E i \in 1..Len(o) : o[i][1] = k
    THEN [i \in 1..Len(o) |-> IF o[i][1] = k THEN <<k, v>> ELSE o[i]]
    ELSE Append(o, <<k, v>>)

RECURSIVE ParseValue(_, _), ParseElements(_, _, _), ParseMembers(_, _, _)
ParseValue(s, i0) ==
    Bind(SkipWs(s, i0), LAMBDA i :
        IF i > Len(s) THEN ParseFail
        ELSE IF Match(s, i, <<110, 117, 108, 108>>) THEN Parsed(Null, i + 4)
        ELSE IF Match(s, i, <<116, 114, 117, 101>>) THEN Parsed(Bool(TRUE), i + 4)
        ELSE IF Match(s, i, <<102, 97, 108, 115, 101>>) THEN Parsed(Bool(FALSE), i + 5)
        ELSE IF s[i] = 34
        THEN Bind(ParseChars(s, i + 1, <<>>), LAMBDA r :
                 IF r.ok THEN Parsed(Str(r.v), r.i) ELSE ParseFail)
        ELSE IF s[i] = 91
        THEN Bind(SkipWs(s, i + 1), LAMBDA j :
                 IF j <= Len(s) /\ s[j] = 93 THEN Parsed(Arr(<<>>), j + 1)
                 ELSE ParseElements(s, j, <<>>))
        ELSE IF s[i] = 123
        THEN Bind(SkipWs(s, i + 1), LAMBDA j :
                 IF j <= Len(s) /\ s[j] = 125 THEN Parsed(Obj(<<>>), j + 1)
                 ELSE ParseMembers(s, j, <<>>))
        ELSE IF s[i] = 45 \/ IsDigit(s[i]) THEN ParseNumber(s, i)
        ELSE ParseFail)

ParseElements(s, i, elements) ==
    Bind(<<ParseValue(s, i), elements>>, LAMBDA a :
        LET r == a[1]
            acc == a[2]
        IN  IF ~r.ok THEN ParseFail
            ELSE Bind(SkipWs(s, r.i), LAMBDA j :
                     IF j > Len(s) THEN ParseFail
                     ELSE IF s[j] = 44 THEN ParseElements(s, j + 1, Append(acc, r.v))
                     ELSE IF s[j] = 93 THEN Parsed(Arr(Append(acc, r.v)), j + 1)
                     ELSE ParseFail))

ParseMembers(s, i0, members) ==
    Bind(<<SkipWs(s, i0), members>>, LAMBDA a :
        LET i == a[1]
            acc == a[2]
        IN  IF i > Len(s) \/ s[i] # 34 THEN ParseFail
            ELSE Bind(ParseChars(s, i + 1, <<>>), LAMBDA k :
                 IF ~k.ok THEN ParseFail
                 ELSE Bind(SkipWs(s, k.i), LAMBDA c :
                      IF c > Len(s) \/ s[c] # 58 THEN ParseFail
                      ELSE Bind(ParseValue(s, c + 1), LAMBDA r :
                           IF ~r.ok THEN ParseFail
                           ELSE Bind(SkipWs(s, r.i), LAMBDA j :
                                IF j > Len(s) THEN ParseFail
                                ELSE IF s[j] = 44
                                THEN ParseMembers(s, j + 1, SetMember(acc, k.v, r.v))
                                ELSE IF s[j] = 125
                                THEN Parsed(Obj(SetMember(acc, k.v, r.v)), j + 1)
                                ELSE ParseFail)))))

JSONparse(text) ==
    Bind(text, LAMBDA s :
        Bind(ParseValue(s, 1), LAMBDA r :
            IF r.ok /\ SkipWs(s, r.i) = Len(s) + 1 THEN Ok(r.v)
            ELSE Throw("SyntaxError", <<"Unexpected token in JSON">>)))

----------------------------------------------------------------------------
(* crypto.subtle: collision-free stand-ins for PBKDF2, HKDF, AES-GCM, HMAC *)

\* a byte array behind its two-byte length
Lp(bytes) == Bind(bytes, LAMBDA b : <<Len(b) \div 256, Len(b) % 256>> \o b)

\* deriveKey PBKDF2, 100000 iterations of SHA-256, from the imported passphrase
PBKDF2(keyMaterial, salt) == Lp(keyMaterial) \o Lp(salt)

\* deriveBits HKDF; length is an unsigned long, so a negative length wraps to
\* more bits than HKDF can give; a length of 0 is rejected by the platforms
\* with zeroLenThrows and gives no bytes on the others
deriveBits(zeroLenThrows, derivedKey, salt, info, length) ==
    IF length < 0 \/ length > 255 * 32 * 8
    THEN Throw("OperationError", <<>>)
    ELSE IF length = 0
    THEN (IF zeroLenThrows THEN Throw("OperationError", <<>>) ELSE Ok(<<>>))
    ELSE Ok(Lp(derivedKey) \o Lp(salt) \o Lp(info) \o <<length \div 8>>)

KeyStream(key, iv, i) == (key[1 + (i % Len(key))] + iv[1 + (i % Len(iv))] + i) % 256

GcmTag(key, iv, body) == Lp(key) \o Lp(iv) \o body

\* encrypt AES-GCM: the masked plaintext behind its length, then the tag
AesGcmEncrypt(key, iv, plaintext) ==
    Bind(<<key, iv, plaintext>>, LAMBDA a :
        Bind([i \in 1..Len(a[3]) |-> (a[3][i] + KeyStream(a[1], a[2], i)) % 256],
             LAMBDA body : Lp(body) \o GcmTag(a[1], a[2], body)))

\* decrypt AES-GCM: OperationError unless the tag is the one of this key and iv
AesGcmDecrypt(key, iv, data) ==
    Bind(<<key, iv, data>>, LAMBDA a :
        LET ct == a[3]
            n == ct[1] * 256 + ct[2]
        IN  IF Len(ct) < 2 \/ Len(ct) < 2 + n
            THEN Throw("OperationError", <<>>)
            ELSE IF SubSeq(ct, n + 3, Len(ct)) # GcmTag(a[1], a[2], SubSeq(ct, 3, n + 2))
            THEN Throw("OperationError", <<>>)
            ELSE Ok([i \in 1..n |-> (ct[i + 2] + 256 - KeyStream(a[1], a[2], i)) % 256]))

HmacSign(key, data) == Lp(key) \o data

\* a variant of HmacVerify that accepts every signature
HmacVerifySkipped(key, signature, data) == TRUE

\* a variant of HmacVerify that compares the lengths only
HmacVerifyByLength(key, signature, data) == Len(signature) = Len(HmacSign(key, data))

HmacVerify(key, signature, data) == signature = HmacSign(key, data)

----------------------------------------------------------------------------
(* zk-crypto.js *)

INFO_ID == <<105, 100>>
INFO_ENC == <<101, 110, 99>>
INFO_MAC == <<109, 97, 99>>

K_v == <<118>>
K_ts == <<116, 115>>
K_salt == <<115, 97, 108, 116>>
K_iv == <<105, 118>>
K_ct == <<99, 116>>
K_mac == <<109, 97, 99>>

HKDFOn(zeroLenThrows, passphrase, info, lengthBytes, saltB64u) ==
    Bind(base64urlDecode(saltB64u), LAMBDA salt :
        IF ~salt.ok THEN salt
        ELSE LET keyMaterial == TextEncode(passphrase)
                 derivedKey == PBKDF2(keyMaterial, salt.val)
                 infoBytes == TextEncode(info)
             IN  deriveBits(zeroLenThrows, derivedKey, salt.val, infoBytes,
                            lengthBytes * 8))

\* every call of the module asks for 16 or 32 bytes, where the platforms agree
HKDF(passphrase, info, lengthBytes, saltB64u) ==
    HKDFOn(TRUE, passphrase, info, lengthBytes, saltB64u)

\* salt: the 16 bytes drawn by crypto.getRandomValues
deriveId(passphrase, salt) ==
    Bind(base64urlEncode(salt), LAMBDA saltB64u :
        Bind(HKDF(passphrase, INFO_ID, 16, saltB64u), LAMBDA idBytes :
            IF ~idBytes.ok THEN idBytes ELSE Ok(base64urlEncode(idBytes.val))))

\* salt, iv: the bytes drawn by crypto.getRandomValues; ts: Date.now()
encryptJson(obj, passphrase, salt, iv, ts) ==
    Bind(base64urlEncode(salt), LAMBDA saltB64u :
    Bind(HKDF(passphrase, INFO_ENC, 32, saltB64u), LAMBDA encKey :
    Bind(HKDF(passphrase, INFO_MAC, 32, saltB64u), LAMBDA macKey :
        IF ~encKey.ok THEN encKey
        ELSE IF ~macKey.ok THEN macKey
        ELSE
        Bind(AesGcmEncrypt(encKey.val, iv, encode(JSONstringify(obj))), LAMBDA ct :
            LET macData == concatUint8Arrays(<<salt, iv, ct>>)
                macBytes == HmacSign(macKey.val, macData)
            IN  Ok(Obj(<< <<K_v, Num(1)>>,
                          <<K_ts, Num(ts)>>,
                          <<K_salt, Str(saltB64u)>>,
                          <<K_iv, Str(base64urlEncode(iv))>>,
                          <<K_ct, Str(base64urlEncode(ct))>>,
                          <<K_mac, Str(base64urlEncode(macBytes))>> >>))))))

\* the steps of verifyAndDecrypt, in the order they are reached
Failed(name, message, steps) ==
    [ok |-> FALSE, err |-> [name |-> name, message |-> message], steps |-> steps]

Rethrown(r, steps) == Failed(r.err.name, r.err.message, steps)

\* a variant of InvalidStructure that does not look at v
InvalidStructureAnyVersion(payload) ==
    \/ Falsy(payload) \/ typeof(payload) # "object"
    \/ typeof(Get(payload, K_salt)) # "string"
    \/ typeof(Get(payload, K_iv)) # "string"
    \/ typeof(Get(payload, K_ct)) # "string"
    \/ typeof(Get(payload, K_mac)) # "string"
    \/ typeof(Get(payload, K_ts)) # "number"

\* the structure check at the head of verifyAndDecrypt
InvalidStructure(payload) ==
    \/ Falsy(payload) \/ typeof(payload) # "object"
    \/ Get(payload, K_v) # Num(1)
    \/ typeof(Get(payload, K_salt)) # "string"
    \/ typeof(Get(payload, K_iv)) # "string"
    \/ typeof(Get(payload, K_ct)) # "string"
    \/ typeof(Get(payload, K_mac)) # "string"
    \/ typeof(Get(payload, K_ts)) # "number"

\* the try block of verifyAndDecrypt
VerifyAndDecryptBody(payload, passphrase) ==
    IF InvalidStructure(payload)
    THEN Failed("Error", <<"Invalid payload structure">>, <<"validate">>)
    ELSE
    Bind(<<base64urlDecode(Get(payload, K_salt).s), base64urlDecode(Get(payload, K_iv).s),
           base64urlDecode(Get(payload, K_ct).s), base64urlDecode(Get(payload, K_mac).s)>>,
         LAMBDA d :
    LET salt == d[1]
        iv == d[2]
        ct == d[3]
        mac == d[4]
        saltB64u == Get(payload, K_salt).s
        s0 == <<"validate", "decode">>
        s1 == <<"validate", "decode", "derive">>
        s2 == <<"validate", "decode", "derive", "verify">>
        s3 == <<"validate", "decode", "derive", "verify", "decrypt">>
        s4 == <<"validate", "decode", "derive", "verify", "decrypt", "parse">>
    IN  IF ~salt.ok THEN Rethrown(salt, s0)
        ELSE IF ~iv.ok THEN Rethrown(iv, s0)
        ELSE IF ~ct.ok THEN Rethrown(ct, s0)
        ELSE IF ~mac.ok THEN Rethrown(mac, s0)
        ELSE
        Bind(HKDF(passphrase, INFO_ENC, 32, saltB64u), LAMBDA encKey :
        Bind(HKDF(passphrase, INFO_MAC, 32, saltB64u), LAMBDA macKey :
            IF ~encKey.ok THEN Rethrown(encKey, s1)
            ELSE IF ~macKey.ok THEN Rethrown(macKey, s1)
            ELSE
            LET macData == concatUint8Arrays(<<salt.val, iv.val, ct.val>>)
                macValid == HmacVerify(macKey.val, mac.val, macData)
            IN  IF ~macValid THEN Failed("Error", <<"HMAC verification failed">>, s2)
                ELSE
                Bind(AesGcmDecrypt(encKey.val, iv.val, ct.val), LAMBDA plaintext :
                    IF ~plaintext.ok THEN Rethrown(plaintext, s3)
                    ELSE
                    Bind(JSONparse(TextDecode(plaintext.val)), LAMBDA parsed :
                        IF ~parsed.ok THEN Rethrown(parsed, s4)
                        ELSE [ok |-> TRUE, val |-> parsed.val, steps |-> s4])))))

\* the catch block rethrows every failure as Error('Decryption failed: ' + message)
verifyAndDecrypt(payload, passphrase) ==
    Bind(<<payload, passphrase>>, LAMBDA a :
        Bind(VerifyAndDecryptBody(a[1], a[2]), LAMBDA r :
            IF r.ok THEN r
            ELSE Failed("Error", <<"Decryption failed", ": ">> \o r.err.message,
                        r.steps)))

----------------------------------------------------------------------------
(* Inputs *)

SaltLen == 16
IvLen == 12
NumSeeds == 2

\* the bytes crypto.getRandomValues returns for a seed
RandomBytes(seed, n) == [i \in 1..n |-> (seed * 37 + i * 11) % 256]

Seeds == 1..NumSeeds

EmptyPassphrase == <<>>
Passphrases == {<<112, 49>>, <<112, 50>>}
AnyPassphrase == Passphrases \cup {EmptyPassphrase}

\* {"a":1}, and values that exercise escapes, nesting and non-ASCII text
JsonValues ==
    { Null, Bool(TRUE), Num(0), Num(-12), Str(<<>>), Str(<<97, 34, 92, 10, 233>>),
      Arr(<<>>), Arr(<<Num(1), Str(<<44>>), Arr(<<Null>>)>>),
      Obj(<<>>), Obj(<< <<<<97>>, Num(1)>> >>),
      Obj(<< <<<<97>>, Arr(<<Bool(FALSE)>>)>>, <<<<8364, 34>>, Str(<<125>>)>> >>) }

TamperValues == {Str(<<>>), Obj(<< <<<<97>>, Num(1)>> >>)}

KdfLengths == {-1, 0, 16, 32}
KdfInfos == {INFO_ID, INFO_ENC, INFO_MAC}
BadVersions == {Num(0), Num(2), Str(<<49>>), Undef}
ByteFields == {K_salt, K_iv, K_ct, K_mac}
\* "!" is no base64url text; "AA" is, of one zero byte
Garbage == {<<33>>, <<65, 65>>}

----------------------------------------------------------------------------
(* Codec runs: encrypt a drawn value, alter the envelope, decrypt *)

\* the envelope with property k set to v
WithField(env, k, v) ==
    Obj([i \in 1..Len(env.o) |-> IF env.o[i][1] = k THEN <<k, v>> ELSE env.o[i]])

FieldBytes(env, k) == base64urlDecode(Get(env, k).s).val

\* byte i of field k flipped (every bit inverted), the field encoded again
FlipByte(env, k, i) ==
    Bind(FieldBytes(env, k), LAMBDA b :
        WithField(env, k, Str(base64urlEncode([b EXCEPT ![i] = 255 - b[i]]))))

SyncIdle ==
    /\ now = 1
    /\ remote = <<>>
    /\ debounceTimers = <<>>
    /\ timers = <<>>
    /\ load = [pc |-> "idle"]
    /\ loadFaults = FALSE

syncVars == <<now, remote, debounceTimers, timers, load, loadFaults>>

CodecInit ==
    /\ SyncIdle
    /\ \E obj \in JsonValues, p \in AnyPassphrase, seed \in Seeds :
         codec = [phase |-> "drawn", obj |-> obj, passphrase |-> p,
                  salt |-> RandomBytes(seed, SaltLen),
                  iv |-> RandomBytes(seed + 7, IvLen),
                  env |-> <<>>, altered |-> {}, kdf |-> <<>>, as |-> <<>>, out |-> <<>>]

CodecEncrypt ==
    /\ codec.phase = "drawn"
    /\ \E r \in {encryptJson(codec.obj, codec.passphrase, codec.salt, codec.iv, 1)} :
           codec' = IF r.ok THEN [codec EXCEPT !.phase = "sealed", !.env = <<r.val>>]
                    ELSE [codec EXCEPT !.phase = "failed", !.out = <<r>>]
    /\ UNCHANGED syncVars

\* one byte of salt, iv, ct or mac of the valid envelope is flipped
CodecFlip ==
    /\ codec.phase = "sealed"
    /\ codec.altered = {}
    /\ \E k \in ByteFields :
         \E i \in 1..Len(FieldBytes(codec.env[1], k)) :
            codec' = [codec EXCEPT !.env = <<FlipByte(codec.env[1], k, i)>>,
                                   !.altered = {"byte"}]
    /\ UNCHANGED syncVars

\* one of salt, iv, ct, mac is replaced by text that is no encoding of it
CodecGarble ==
    /\ codec.phase = "sealed"
    /\ codec.altered = {}
    /\ \E k \in ByteFields, junk \in Garbage :
         codec' = [codec EXCEPT !.env = <<WithField(codec.env[1], k, Str(junk))>>,
                                !.altered = {"field"}]
    /\ UNCHANGED syncVars

\* the v of the envelope is replaced
CodecSetVersion ==
    /\ codec.phase = "sealed"
    /\ codec.altered \subseteq {"field"}
    /\ \E v \in BadVersions :
         codec' = [codec EXCEPT !.env = <<WithField(codec.env[1], K_v, v)>>,
                                !.altered = @ \cup {"v"}]
    /\ UNCHANGED syncVars

CodecDecrypt ==
    /\ codec.phase = "sealed"
    /\ \E p \in AnyPassphrase :
         codec' = [codec EXCEPT !.phase = "opened", !.as = p,
                                !.out = <<verifyAndDecrypt(codec.env[1], p)>>]
    /\ UNCHANGED syncVars

CodecDerive ==
    /\ codec.phase = "drawn"
    /\ \E info \in KdfInfos, n \in KdfLengths, zeroLenThrows \in BOOLEAN :
         codec' = [codec EXCEPT !.phase = "derived",
                                !.kdf = <<info, n>>,
                                !.out = <<HKDFOn(zeroLenThrows, codec.passphrase, info, n,
                                                 base64urlEncode(codec.salt))>>]
    /\ UNCHANGED syncVars

CodecNext ==
    \/ CodecEncrypt
    \/ CodecGarble
    \/ CodecSetVersion
    \/ CodecDecrypt
    \/ CodecDerive

\* the runs that flip a byte start from fewer values: every position is tried
TamperInit ==
    /\ SyncIdle
    /\ \E obj \in TamperValues, p \in Passphrases, seed \in Seeds :
        codec = [phase |-> "drawn", obj |-> obj, passphrase |-> p,
                 salt |-> RandomBytes(seed, SaltLen),
                 iv |-> RandomBytes(seed + 7, IvLen),
                 env |-> <<>>, altered |-> {}, kdf |-> <<>>, as |-> <<>>, out |-> <<>>]

TamperNext ==
    \/ CodecEncrypt
    \/ CodecFlip
    \/ CodecDecrypt


----------------------------------------------------------------------------
(* The remote store and the HTTP responses *)

MaxTime == 2
MaxCalls == 2

K_a == <<97>>
\* the application state the n-th saveState call passes: {"a": n}
StateObj(n) == Obj(<< <<K_a, Num(n)>> >>)

\* the envelope a run seals with its k-th draw of salt and iv at time ts
Sealed(obj, passphrase, k, ts) ==
    encryptJson(obj, passphrase, RandomBytes(k, SaltLen), RandomBytes(k + 7, IvLen), ts).val

\* the identifier saveState derives with the salt it draws from seed
IdOf(passphrase, seed) == deriveId(passphrase, RandomBytes(seed, SaltLen))

\* the identifier saveStateInternal or loadState derives with the salt it
\* draws from seed; it names a bucket
BucketIdOf(passphrase, seed) == deriveId(passphrase, RandomBytes(NumSeeds + seed, SaltLen))

\* the body of a request: JSON.stringify(value)
Text(value) == JSONstringify(value).s

\* a stored envelope whose v is not 1
Damaged(envelope) == WithField(envelope, K_v, Num(2))

Pointer(ts) == Obj(<< <<K_ts, Num(ts)>> >>)
Descriptor(ts) == Obj(<< <<K_ts, Num(ts)>> >>)

\* a bucket: the text of the pointer, the text of each version by ts (<<>>
\* where none is stored), the ts values the list endpoint reports
EmptyBucket == [latest |-> <<>>, versions |-> <<>>, listing |-> {}]

Bucket(id) == IF id \in DOMAIN remote THEN remote[id] ELSE EmptyBucket

Stored(b, ts) == ts \in DOMAIN b.versions /\ b.versions[ts] # <<>>

PutVersion(b, ts, body) ==
    LET n == IF ts > Len(b.versions) THEN ts ELSE Len(b.versions)
    IN  [b EXCEPT !.versions = [i \in 1..n |-> IF i = ts THEN <<body>>
                                               ELSE IF i <= Len(b.versions)
                                               THEN b.versions[i] ELSE <<>>],
                  !.listing = @ \cup {ts}]

PutLatest(b, body) == [b EXCEPT !.latest = <<body>>]

Response(status, body) == [kind |-> "response", status |-> status, body |-> body]
\* fetch rejects: no response arrived
Rejected == [kind |-> "reject"]
\* a 2xx response whose body is no JSON text
NotJson == Response(200, <<60>>)
ServerError == Response(500, <<>>)
NotFound == Response(404, <<>>)

ok(response) == response.status >= 200 /\ response.status <= 299

\* response.json()
json(response) == JSONparse(response.body)

GetLatest(b) == IF b.latest = <<>> THEN NotFound ELSE Response(200, b.latest[1])

GetVersion(b, ts) == IF Stored(b, ts) THEN Response(200, b.versions[ts][1]) ELSE NotFound

Perms(S) ==
    {q \in [1..Cardinality(S) -> S] : \A i, j \in 1..Cardinality(S) : i # j => q[i] # q[j]}

\* the list endpoint answers the descriptors in an order of its own
GetLists(b) ==
    {Response(200, Text(Arr([i \in 1..Len(q) |-> Descriptor(q[i])]))) : q \in Perms(b.listing)}

Faults == {Rejected, ServerError, NotJson}
\* 2xx bodies of the wrong shape: no ts, no array, an array of no descriptors
OddLatest == Response(200, Text(Obj(<<>>)))
OddLists == {Response(200, Text(Obj(<<>>))), Response(200, Text(Arr(<<Null>>)))}

\* the answers a GET can get: the store's, and with loadFaults the others
Answers(real, odd) == real \cup (IF loadFaults THEN odd \cup Faults ELSE {})

----------------------------------------------------------------------------
(* state-sync.js: loadState *)

Absent == Null
Returned(state, error) == [threw |-> FALSE, state |-> state, error |-> error]
Raised == [threw |-> TRUE, state |-> Absent, error |-> "none"]

\* a variant of IsDecryptFailure that knows the MAC failure only
IsDecryptFailureMacOnly(err) == includes(err.message, "HMAC verification failed")

IsDecryptFailure(err) ==
    \/ includes(err.message, "Decryption failed")
    \/ includes(err.message, "HMAC verification failed")

Done(l, outcome) == [l EXCEPT !.pc = "done", !.result = <<outcome>>]

\* a variant of LoadOuterCatch that lets the error through
LoadOuterCatchRethrow(l) == Done(l, Raised)

\* catch of the outer try: Unexpected error in loadState
LoadOuterCatch(l) == Done(l, Returned(Absent, "network"))

\* the latest pointer
LoadLatestStep(l, response) ==
    IF response.kind = "reject" THEN Done(l, Returned(Absent, "network"))
    ELSE IF ok(response)
    THEN Bind(json(response), LAMBDA latestData :
             IF ~latestData.ok THEN Done(l, Returned(Absent, "network"))
             ELSE IF ~Falsy(latestData.val) /\ typeof(Get(latestData.val, K_ts)) = "number"
             THEN [l EXCEPT !.pc = "version", !.latestTs = <<Get(latestData.val, K_ts).n>>]
             ELSE [l EXCEPT !.pc = "list"])
    ELSE IF response.status # 404 THEN Done(l, Returned(Absent, "network"))
    ELSE [l EXCEPT !.pc = "list"]

\* versionResponse.json() and verifyAndDecrypt of a 2xx version response
Fetched(response, passphrase) ==
    Bind(json(response), LAMBDA versionData :
        IF ~versionData.ok THEN versionData
        ELSE verifyAndDecrypt(versionData.val, passphrase))

\* a variant of LoadVersionStep that takes every refusal for a missing version
LoadVersionStepLenient(l, response) ==
    IF response.kind = "reject" THEN Done(l, Returned(Absent, "network"))
    ELSE IF ok(response)
    THEN Bind(Fetched(response, l.passphrase), LAMBDA decrypted :
             IF decrypted.ok THEN Done(l, Returned(decrypted.val, "none"))
             ELSE IF IsDecryptFailure(decrypted.err) THEN [l EXCEPT !.pc = "list"]
             ELSE Done(l, Returned(Absent, "network")))
    ELSE [l EXCEPT !.pc = "list"]

\* the version the pointer names
LoadVersionStep(l, response) ==
    IF response.kind = "reject" THEN Done(l, Returned(Absent, "network"))
    ELSE IF ok(response)
    THEN Bind(Fetched(response, l.passphrase), LAMBDA decrypted :
             IF decrypted.ok THEN Done(l, Returned(decrypted.val, "none"))
             ELSE IF IsDecryptFailure(decrypted.err) THEN [l EXCEPT !.pc = "list"]
             ELSE Done(l, Returned(Absent, "network")))
    ELSE IF response.status = 404 THEN [l EXCEPT !.pc = "list"]
    ELSE Done(l, Returned(Absent, "network"))

\* a variant of SortDesc that leaves the list in the order it came in
Unsorted(q) == q

\* insertion into a sequence sorted by (a, b) => b.ts - a.ts
RECURSIVE SortDesc(_)
SortDesc(q) ==
    IF q = <<>> THEN <<>>
    ELSE LET rest == SortDesc(Tail(q))
             x == Head(q)
             before == SelectSeq(rest, LAMBDA y : Get(y, K_ts).n - Get(x, K_ts).n >= 0)
             after == SelectSeq(rest, LAMBDA y : Get(y, K_ts).n - Get(x, K_ts).n < 0)
         IN  before \o <<x>> \o after

\* a variant of NoVersions that does not look at the length of the array
NoVersionsNotArray(versions) == versions.t # "array"

\* the list is no array or holds nothing: No state exists yet
NoVersions(versions) == versions.t # "array" \/ Len(versions.a) = 0

\* the list of versions, filtered and sorted
LoadListStep(l, response) ==
    IF response.kind = "reject" \/ ~ok(response)
    THEN Done(l, Returned(Absent, "network"))
    ELSE Bind(json(response), LAMBDA versions :
             IF ~versions.ok THEN Done(l, Returned(Absent, "network"))
             ELSE IF NoVersions(versions.val)
             THEN Done(l, Returned(Absent, "none"))
             ELSE Bind(SortDesc(SelectSeq(versions.val.a,
                           LAMBDA v : ~Falsy(v) /\ typeof(Get(v, K_ts)) = "number")),
                       LAMBDA sortedVersions :
                      IF sortedVersions = <<>>
                      THEN Done(l, Returned(Absent, "integrity"))
                      ELSE [l EXCEPT !.pc = "scan", !.queue = sortedVersions]))

\* the loop goes on to the next version, or ends: All versions failed decryption
LoadContinue(l) ==
    IF Len(l.queue) = 1 THEN Done([l EXCEPT !.queue = <<>>], Returned(Absent, "integrity"))
    ELSE [l EXCEPT !.queue = Tail(@)]

\* one round of the loop over sortedVersions
LoadScanStep(l, response) ==
    IF response.kind = "reject" THEN Done(l, Returned(Absent, "network"))
    ELSE IF ok(response)
    THEN Bind(Fetched(response, l.passphrase), LAMBDA decrypted :
             IF decrypted.ok THEN Done(l, Returned(decrypted.val, "none"))
             ELSE IF IsDecryptFailure(decrypted.err) THEN LoadContinue(l)
             ELSE Done(l, Returned(Absent, "network")))
    ELSE LoadContinue(l)

\* seen: the timers whose run had ended when the load began; tried: the ts of
\* the versions the loop has requested, in the order of the requests
IdleLoad ==
    [pc |-> "idle", passphrase |-> <<>>, id |-> <<>>, latestTs |-> <<>>, queue |-> <<>>,
     result |-> <<>>, log |-> <<>>, faults |-> 0, seen |-> {}, tried |-> <<>>]

\* the requests of a load and the status each was answered with (0: rejected);
\* faults counts the answers that were not the store's
Logged(l, step, response, real) ==
    [l EXCEPT !.log = Append(@, <<step, IF response.kind = "reject" THEN 0
                                        ELSE response.status>>),
              !.faults = IF response \in real THEN @ ELSE @ + 1]

saveVars == <<now, debounceTimers, timers>>

\* loadState(passphrase) up to its first request; deriveId draws its salt
LoadStart ==
    /\ load.pc \in {"idle", "done"}
    /\ \E p \in Passphrases, seed \in Seeds, cryptoFails \in {FALSE, loadFaults} :
         \E id \in {BucketIdOf(p, seed)} :
            LET l == [IdleLoad EXCEPT
                         !.passphrase = p,
                         !.seen = {h \in 1..Len(timers) :
                                      timers[h].run.pc \in {"done", "failed"}}]
            IN  load' = IF cryptoFails \/ ~id.ok
                        THEN LoadOuterCatch([l EXCEPT !.faults = 1])
                        ELSE [l EXCEPT !.pc = "latest", !.id = id.val]
    /\ UNCHANGED <<codec, remote, saveVars, loadFaults>>

LoadLatest ==
    /\ load.pc = "latest"
    /\ \E real \in {{GetLatest(Bucket(load.id))}} :
         \E response \in Answers(real, {OddLatest}) :
            load' = Logged(LoadLatestStep(load, response), "latest", response, real)
    /\ UNCHANGED <<codec, remote, saveVars, loadFaults>>

LoadVersion ==
    /\ load.pc = "version"
    /\ \E real \in {{GetVersion(Bucket(load.id), load.latestTs[1])}} :
         \E response \in Answers(real, {}) :
            load' = Logged(LoadVersionStep(load, response), "version", response, real)
    /\ UNCHANGED <<codec, remote, saveVars, loadFaults>>

LoadList ==
    /\ load.pc = "list"
    /\ \E real \in {GetLists(Bucket(load.id))} :
         \E response \in Answers(real, OddLists) :
            load' = Logged(LoadListStep(load, response), "list", response, real)
    /\ UNCHANGED <<codec, remote, saveVars, loadFaults>>

LoadScan ==
    /\ load.pc = "scan"
    /\ \E real \in {{GetVersion(Bucket(load.id), Get(Head(load.queue), K_ts).n)}} :
         \E response \in Answers(real, {}) :
            load' = [Logged(LoadScanStep(load, response), "scan", response, real)
                        EXCEPT !.tried = Append(@, Get(Head(load.queue), K_ts).n)]
    /\ UNCHANGED <<codec, remote, saveVars, loadFaults>>

LoadNext ==
    \/ LoadStart
    \/ LoadLatest
    \/ LoadVersion
    \/ LoadList
    \/ LoadScan

\* the buckets a load can meet: versions sealed under either passphrase or
\* damaged, a pointer and a list that need not agree with them
TargetId == BucketIdOf(<<112, 49>>, 1).val

InitBodies(ts) ==
    {<<>>} \cup {<<Text(Sealed(StateObj(ts), p, 0, ts))>> : p \in Passphrases}
           \cup {<<Text(Damaged(Sealed(StateObj(ts), <<112, 49>>, 0, ts)))>>}

InitBuckets ==
    {[latest |-> lt, versions |-> vs, listing |-> ls] :
        lt \in {<<>>} \cup {<<Text(Pointer(ts))>> : ts \in 1..MaxTime},
        vs \in {q \in [1..MaxTime -> UNION {InitBodies(ts) : ts \in 1..MaxTime}] :
                   \A ts \in 1..MaxTime : q[ts] \in InitBodies(ts)},
        ls \in SUBSET (1..MaxTime)}

IdleCodec == [phase |-> "idle"]

LoadInit ==
    /\ codec = IdleCodec
    /\ now = MaxTime
    /\ \E b \in InitBuckets : remote = (TargetId :> b)
    /\ debounceTimers = <<>>
    /\ timers = <<>>
    /\ load = IdleLoad
    /\ loadFaults = TRUE

----------------------------------------------------------------------------
(* state-sync.js: saveState, the debounce timers, saveStateInternal *)

\* m with key k bound to v; m without key k
MapSet(m, k, v) == [x \in DOMAIN m \cup {k} |-> IF x = k THEN v ELSE m[x]]
MapDelete(m, k) == [x \in DOMAIN m \ {k} |-> m[x]]

\* the passphrase the page saves under
SavePassphrase == <<112, 49>>

\* crypto.getRandomValues: a salt drawn before, or the next fresh one
Draw(used) == {seed \in Seeds : \A s \in 1..(seed - 1) : s \in used}

NoRun == [pc |-> "none", seed |-> 0, id |-> <<>>, ts |-> 0, versionPut |-> FALSE]

loadVars == <<load, loadFaults>>

\* saveState(passphrase, stateObj) up to its await of deriveId.  Timer h is the
\* one of the h-th call; it is there once deriveId has resolved
SaveState ==
    /\ Len(timers) < MaxCalls
    /\ timers' = Append(timers, [passphrase |-> SavePassphrase,
                                 stateObj |-> StateObj(Len(timers) + 1),
                                 seed |-> 0, id |-> <<>>, status |-> "deriving",
                                 setAt |-> 0, sawArmed |-> {}, run |-> NoRun])
    /\ UNCHANGED <<codec, now, remote, debounceTimers, loadVars>>

\* the timers set so far
SetTimers == {g \in 1..Len(timers) : timers[g].setAt > 0}

\* deriveId of a call resolves with the salt it drew (the calls that wait
\* resolve in any order): the timer under the id is cleared and a new one set.
\* setAt: its place among the timers set; sawArmed: the timers of earlier
\* calls under this passphrase that were armed when it was set
SaveStateResume ==
    \E h \in 1..Len(timers) :
        /\ timers[h].status = "deriving"
        /\ \E seed \in Draw({timers[g].seed : g \in 1..Len(timers)}) :
             \E id \in {IdOf(timers[h].passphrase, seed).val} :
                LET cleared == IF id \in DOMAIN debounceTimers
                               THEN {debounceTimers[id]} ELSE {}
                IN  /\ timers' = [g \in 1..Len(timers) |->
                                     IF g = h
                                     THEN [timers[h] EXCEPT
                                              !.seed = seed, !.id = id, !.status = "armed",
                                              !.setAt = Cardinality(SetTimers) + 1,
                                              !.sawArmed =
                                                  {f \in 1..(h - 1) :
                                                      /\ timers[f].status = "armed"
                                                      /\ timers[f].passphrase
                                                            = timers[h].passphrase}]
                                     ELSE IF g \in cleared /\ timers[g].status = "armed"
                                     THEN [timers[g] EXCEPT !.status = "cleared"]
                                     ELSE timers[g]]
                    /\ debounceTimers' = MapSet(debounceTimers, id, h)
        /\ UNCHANGED <<codec, now, remote, loadVars>>

\* a timer expires (the timers have one delay, so they expire in the order
\* set) and its callback runs saveStateInternal up to the first request:
\* deriveId draws a salt, encryptJson reads the clock
TimerFire ==
    \E h \in 1..Len(timers) :
        /\ timers[h].status = "armed"
        /\ \A g \in 1..Len(timers) :
              timers[g].status = "armed" => timers[g].setAt >= timers[h].setAt
        /\ \E seed \in Draw({timers[g].run.seed : g \in 1..Len(timers)}) :
             \E id \in {BucketIdOf(timers[h].passphrase, seed).val} :
                timers' = [timers EXCEPT
                              ![h].status = "fired",
                              ![h].run = [pc |-> "putVersion", seed |-> seed, id |-> id,
                                          ts |-> now, versionPut |-> FALSE]]
        /\ UNCHANGED <<codec, now, remote, debounceTimers, loadVars>>

\* a variant of SavePutVersion that does not look at versionResponse.ok
SavePutVersionUnchecked ==
    \E h \in 1..Len(timers) :
        /\ timers[h].run.pc = "putVersion"
        /\ \E accepted \in BOOLEAN :
             IF accepted
             THEN /\ remote' = MapSet(remote, timers[h].run.id,
                                PutVersion(Bucket(timers[h].run.id), timers[h].run.ts,
                                    Text(Sealed(timers[h].stateObj, timers[h].passphrase,
                                                h, timers[h].run.ts))))
                  /\ timers' = [timers EXCEPT ![h].run.pc = "putLatest",
                                              ![h].run.versionPut = TRUE]
             ELSE /\ timers' = [timers EXCEPT ![h].run.pc = "putLatest"]
                  /\ UNCHANGED remote
        /\ UNCHANGED <<codec, now, debounceTimers, loadVars>>

\* PUT of the version; a refusal is thrown and caught by the timer's callback
SavePutVersion ==
    \E h \in 1..Len(timers) :
        /\ timers[h].run.pc = "putVersion"
        /\ \E accepted \in BOOLEAN :
             IF accepted
             THEN /\ remote' = MapSet(remote, timers[h].run.id,
                                PutVersion(Bucket(timers[h].run.id), timers[h].run.ts,
                                    Text(Sealed(timers[h].stateObj, timers[h].passphrase,
                                                h, timers[h].run.ts))))
                  /\ timers' = [timers EXCEPT ![h].run.pc = "putLatest",
                                              ![h].run.versionPut = TRUE]
                  /\ UNCHANGED debounceTimers
             ELSE /\ timers' = [timers EXCEPT ![h].run.pc = "failed"]
                  /\ debounceTimers' = MapDelete(debounceTimers, timers[h].id)
                  /\ UNCHANGED remote
        /\ UNCHANGED <<codec, now, loadVars>>

\* PUT of the latest pointer; then the callback deletes the entry of its id
SavePutLatest ==
    \E h \in 1..Len(timers) :
        /\ timers[h].run.pc = "putLatest"
        /\ \E accepted \in BOOLEAN :
             IF accepted
             THEN /\ remote' = MapSet(remote, timers[h].run.id,
                                PutLatest(Bucket(timers[h].run.id),
                                          Text(Pointer(timers[h].run.ts))))
                  /\ timers' = [timers EXCEPT ![h].run.pc = "done"]
             ELSE /\ timers' = [timers EXCEPT ![h].run.pc = "failed"]
                  /\ UNCHANGED remote
        /\ debounceTimers' = MapDelete(debounceTimers, timers[h].id)
        /\ UNCHANGED <<codec, now, loadVars>>

\* Date.now() moves on
Tick ==
    /\ now < MaxTime
    /\ now' = now + 1
    /\ UNCHANGED <<codec, remote, debounceTimers, timers, loadVars>>

Init ==
    /\ codec = IdleCodec
    /\ now = 1
    /\ remote = <<>>
    /\ debounceTimers = <<>>
    /\ timers = <<>>
    /\ load = IdleLoad
    /\ loadFaults = FALSE

\* the save side alone
SaveNext ==
    \/ SaveState
    \/ SaveStateResume
    \/ TimerFire
    \/ SavePutVersion
    \/ SavePutLatest
    \/ Tick

Next ==
    \/ SaveState
    \/ SaveStateResume
    \/ TimerFire
    \/ SavePutVersion
    \/ SavePutLatest
    \/ Tick
    \/ LoadStart
    \/ LoadLatest
    \/ LoadVersion
    \/ LoadList
    \/ LoadScan

----------------------------------------------------------------------------
vars == <<codec, now, remote, debounceTimers, timers, load, loadFaults>>

SpecCodec == CodecInit /\ [][CodecNext]_vars

SpecTamper == TamperInit /\ [][TamperNext]_vars

SpecLoad == LoadInit /\ [][LoadNext]_vars

Spec == Init /\ [][Next]_vars

\* every deriveId resolves, every armed timer expires, every fetch settles
SpecSave ==
    /\ Init /\ [][SaveNext]_vars
    /\ WF_vars(SaveStateResume) /\ WF_vars(TimerFire)
    /\ WF_vars(SavePutVersion) /\ WF_vars(SavePutLatest)
----------------------------------------------------------------------------
(* Properties *)

\* the error kinds of the design, read off the message verifyAndDecrypt throws
ErrorKind(err) ==
    IF includes(err.message, "HMAC verification failed") THEN "IntegrityError"
    ELSE IF includes(err.message, "Invalid payload structure") THEN "FormatError"
    ELSE "Error"

\* C1: of two saveState calls with one passphrase, the second setting its
\* timer while the timer of the first is armed and no save runs, the first
\* never runs saveStateInternal: the one execution is that of the second
\* call's payload.
DebounceCoalesces ==
    \A b \in 1..Len(timers) :
        \A a \in timers[b].sawArmed : timers[a].status # "fired"

\* the identifiers derived so far, each with the passphrase it was derived from
DerivedIds ==
    {<<timers[h].passphrase, timers[h].id>> :
        h \in {g \in 1..Len(timers) : timers[g].status # "deriving"}}
    \cup {<<timers[h].passphrase, timers[h].run.id>> :
             h \in {g \in 1..Len(timers) : timers[g].run.pc # "none"}}
    \cup (IF load.id # <<>> THEN {<<load.passphrase, load.id>>} ELSE {})

\* C2: deriveId is stable: the identifiers saveState, saveStateInternal and
\* loadState derive from one passphrase are one identifier.
DeriveIdStable ==
    \A x, y \in DerivedIds : x[1] = y[1] => x[2] = y[2]

\* C3: a finished loadState has not raised; its error is none, network or
\* integrity, and it carries a state only when the error is none.
LoadAlwaysResolves ==
    load.pc = "done" =>
        /\ ~load.result[1].threw
        /\ load.result[1].error \in {"none", "network", "integrity"}
        /\ (load.result[1].state # Absent => load.result[1].error = "none")

\* a load that met a rejected fetch, a 500 or a malformed body ended with network
LoadAlwaysResolvesWitness ==
    /\ load.pc = "done"
    /\ load.faults > 0
    /\ \E i \in 1..Len(load.log) : load.log[i] = <<"scan", 0>>
    /\ load.result[1] = Returned(Absent, "network")

\* C4: verifyAndDecrypt of the envelope encryptJson made of a value, under the
\* same passphrase, returns a value equal to it.
RoundTrip ==
    codec.phase = "opened" /\ codec.altered = {} /\ codec.as = codec.passphrase =>
        codec.out[1].ok /\ codec.out[1].val = codec.obj

\* the round trip of an object with a nested array, an escaped key and non-ASCII text
RoundTripWitness ==
    /\ codec.phase = "opened" /\ codec.altered = {} /\ codec.as = codec.passphrase
    /\ codec.passphrase # EmptyPassphrase
    /\ codec.obj.t = "object" /\ Len(codec.obj.o) = 2
    /\ codec.out[1].ok /\ codec.out[1].val = codec.obj

\* C5: verifyAndDecrypt under another passphrase than the one that sealed the
\* envelope, or of an envelope with one byte of salt, iv, ct or mac changed,
\* returns no value and fails with the integrity error.
TamperDetected ==
    codec.phase = "opened" /\ (codec.as # codec.passphrase \/ "byte" \in codec.altered) =>
        ~codec.out[1].ok /\ ErrorKind(codec.out[1].err) = "IntegrityError"

\* a changed byte of ct met under the right passphrase
TamperDetectedWitness ==
    /\ codec.phase = "opened" /\ codec.as = codec.passphrase
    /\ "byte" \in codec.altered
    /\ Get(codec.env[1], K_ct)
         # Get(encryptJson(codec.obj, codec.passphrase, codec.salt, codec.iv, 1).val, K_ct)
    /\ ~codec.out[1].ok /\ ErrorKind(codec.out[1].err) = "IntegrityError"

\* C6: an envelope whose v is not 1 is rejected with the format error, whatever
\* its salt, iv, ct and mac, at the structure check: no field is decoded, no
\* key derived, no MAC verified.
VersionRejected ==
    codec.phase = "opened" /\ "v" \in codec.altered =>
        /\ ~codec.out[1].ok
        /\ ErrorKind(codec.out[1].err) = "FormatError"
        /\ ErrorKind(codec.out[1].err) # "IntegrityError"
        /\ codec.out[1].steps = <<"validate">>

\* an otherwise valid envelope with v = 2, opened under the right passphrase
VersionRejectedWitness ==
    /\ codec.phase = "opened" /\ codec.altered = {"v"} /\ codec.as = codec.passphrase
    /\ Get(codec.env[1], K_v) = Num(2)
    /\ ~codec.out[1].ok /\ codec.out[1].steps = <<"validate">>

\* the ts the latest pointer of a bucket names, 0 if there is no pointer
PointerTs(b) ==
    IF b.latest = <<>> THEN 0 ELSE Get(JSONparse(b.latest[1]).val, K_ts).n

\* version ts of the bucket is stored and decrypts under the passphrase
Usable(b, ts, passphrase) ==
    Stored(b, ts) /\ Fetched(GetVersion(b, ts), passphrase).ok

\* C7: a load, every request answered by the store, of a bucket whose list is
\* empty returns {absent, none}: with no latest pointer, and with a pointer
\* whose version is missing or does not decrypt.
EmptyListIsNone ==
    /\ load.pc = "done" /\ load.faults = 0 /\ load.id # <<>>
    /\ Bucket(load.id).listing = {}
    /\ \/ Bucket(load.id).latest = <<>>
       \/ ~Usable(Bucket(load.id), PointerTs(Bucket(load.id)), load.passphrase)
    => load.result[1] = Returned(Absent, "none")

\* a pointer that names a stored version which does not decrypt, an empty list
EmptyListIsNoneWitness ==
    /\ load.pc = "done" /\ load.faults = 0 /\ load.id # <<>>
    /\ Bucket(load.id).listing = {}
    /\ Bucket(load.id).latest # <<>>
    /\ Stored(Bucket(load.id), PointerTs(Bucket(load.id)))
    /\ ~Usable(Bucket(load.id), PointerTs(Bucket(load.id)), load.passphrase)
    /\ load.log = <<<<"latest", 200>>, <<"version", 200>>, <<"list", 200>>>>
    /\ load.result[1] = Returned(Absent, "none")

\* the bucket lists its stored versions, there is one, none decrypts
AllUndecryptable(b, passphrase) ==
    /\ b.listing # {}
    /\ b.listing = {ts \in DOMAIN b.versions : Stored(b, ts)}
    /\ \A ts \in b.listing : ~Usable(b, ts, passphrase)

\* C8: a load, every request answered by the store, of a bucket that is not
\* empty and none of whose versions decrypts under the passphrase returns
\* {absent, integrity}, with or without a latest pointer.
AllFailIsIntegrity ==
    /\ load.pc = "done" /\ load.faults = 0 /\ load.id # <<>>
    /\ AllUndecryptable(Bucket(load.id), load.passphrase)
    => load.result[1] = Returned(Absent, "integrity")

\* two versions, one sealed under another passphrase and one damaged, and a pointer
AllFailIsIntegrityWitness ==
    /\ load.pc = "done" /\ load.faults = 0 /\ load.id # <<>>
    /\ AllUndecryptable(Bucket(load.id), load.passphrase)
    /\ Cardinality(Bucket(load.id).listing) = 2
    /\ Bucket(load.id).latest # <<>>
    /\ load.result[1] = Returned(Absent, "integrity")

\* the run of timer h stored its version and failed to set the pointer
Orphaned(h) == timers[h].run.pc = "failed" /\ timers[h].run.versionPut

\* every other version written is older than the one of timer h
Newest(h) ==
    \A g \in 1..Len(timers) :
        g # h /\ timers[g].run.versionPut => timers[g].run.ts < timers[h].run.ts

\* C9: after a run whose version PUT succeeded and whose pointer PUT failed,
\* a load begun later under the same passphrase, every request answered by
\* the store, of the bucket the run wrote to returns the state of that
\* version, the newest written, whatever the latest pointer holds.
OrphanRecoverable ==
    \A h \in 1..Len(timers) :
        /\ load.pc = "done" /\ load.faults = 0
        /\ h \in load.seen /\ Orphaned(h) /\ Newest(h)
        /\ load.passphrase = timers[h].passphrase
        /\ load.id = timers[h].run.id
        => load.result[1] = Returned(timers[h].stateObj, "none")

\* C10: HKDF fails when the passphrase is empty or the length is not
\* positive, so no envelope is sealed under an empty passphrase.
DerivationGuarded ==
    /\ codec.phase = "derived" /\ (codec.passphrase = EmptyPassphrase \/ codec.kdf[2] <= 0)
       => ~codec.out[1].ok
    /\ codec.phase = "sealed" => codec.passphrase # EmptyPassphrase

\* the status the i-th request of the loop over sortedVersions was answered with
ScanStatus(i) == load.log[Len(load.log) - Len(load.tried) + i][2]

\* C11: in the loop of the list fallback a version GET answered with a status
\* that is neither 2xx nor 404 ends the load with {absent, network}, no later
\* descriptor being tried; one answered 404 makes the loop go on to the next.
ScanErrorAborts ==
    \A i \in 1..Len(load.tried) :
        /\ ScanStatus(i) \notin (200..299) \cup {0, 404} =>
              /\ i = Len(load.tried)
              /\ load.pc = "done"
              /\ load.result[1] = Returned(Absent, "network")
        /\ ScanStatus(i) = 404 =>
              \/ i < Len(load.tried)
              \/ load.queue = <<>> /\ load.result[1].error # "network"

\* C12: a load returns {absent, integrity} only after the loop requested every
\* listed version, each was answered 2xx and each failed to decrypt: never
\* after a version request met an HTTP error, never with no decrypt attempted.
IntegrityMeansDecryptFailures ==
    load.pc = "done" /\ load.result[1].error = "integrity" =>
        /\ load.tried # <<>>
        /\ {load.tried[i] : i \in 1..Len(load.tried)} = Bucket(load.id).listing
        /\ \A i \in 1..Len(load.tried) : ScanStatus(i) \in 200..299

\* C13: a rejected fetch, or a status that is neither 2xx nor 404, on the GET
\* of the latest pointer or of the version it names ends the load at once
\* with {absent, network}: no list request, no further GET.
PointerErrorIsNetwork ==
    \A i \in 1..Len(load.log) :
        /\ load.log[i][1] \in {"latest", "version"}
        /\ load.log[i][2] \notin (200..299) \cup {404}
        => /\ i = Len(load.log)
           /\ load.pc = "done"
           /\ load.result[1] = Returned(Absent, "network")

\* the pointer was read, the version it names was answered 500
PointerErrorIsNetworkWitness ==
    /\ load.pc = "done"
    /\ load.log = <<<<"latest", 200>>, <<"version", 500>>>>
    /\ load.result[1] = Returned(Absent, "network")

\* C14: when the GET of the version the pointer names is answered 404, or
\* 2xx with a body that does not decrypt or is malformed, the load goes on to
\* the list request and does not end with network at that step.
PointerVersionFallsThrough ==
    \A i \in 1..Len(load.log) :
        load.log[i][1] = "version" /\ load.log[i][2] \in (200..299) \cup {404} =>
            IF i < Len(load.log) THEN load.log[i + 1][1] = "list"
            ELSE \/ load.pc = "list"
                 \/ /\ load.pc = "done"
                    /\ load.log[i][2] \in 200..299
                    /\ load.result[1].error = "none"

\* C15: the loop requests the versions in strictly descending ts and stops at
\* the first that decrypts: a state it returns is that of the highest-ts
\* listed version answered 2xx that decrypts, every listed version above it
\* was requested before and failed, and nothing is requested after it.
ScanNewestFirst ==
    /\ \A i, j \in 1..Len(load.tried) : i < j => load.tried[i] > load.tried[j]
    /\ load.pc = "done" /\ load.tried # <<>> /\ load.result[1].error = "none" =>
          LET b == Bucket(load.id)
              ts == load.tried[Len(load.tried)]
          IN  /\ load.log[Len(load.log)] = <<"scan", 200>>
              /\ Usable(b, ts, load.passphrase)
              /\ load.result[1].state = Fetched(GetVersion(b, ts), load.passphrase).val
              /\ \A t \in b.listing :
                     t > ts => \E i \in 1..(Len(load.tried) - 1) : load.tried[i] = t
              /\ \A i \in 1..(Len(load.tried) - 1) :
                     \/ ScanStatus(i) \notin 200..299
                     \/ ~Usable(b, load.tried[i], load.passphrase)

\* the list came oldest first; version 2 did not decrypt, version 1 did
ScanNewestFirstWitness ==
    /\ load.pc = "done" /\ load.faults = 0
    /\ load.tried = <<2, 1>>
    /\ load.log[Len(load.log) - 2] = <<"list", 200>>
    /\ ScanStatus(1) = 200
    /\ load.result[1] = Returned(StateObj(1), "none")

\* C16: saveStateInternal sends the pointer PUT {ts} only after its version
\* PUT of that ts to that id was answered 2xx, and a refused version PUT ends
\* the save with the pointer as it was: every pointer in the store names a
\* version stored under the same id, and a step that changes a pointer is
\* the pointer PUT of a run whose version is stored.
PointerAfterVersion ==
    /\ [](\A id \in DOMAIN remote :
             remote[id].latest # <<>> => Stored(remote[id], PointerTs(remote[id])))
    /\ [][\A id \in DOMAIN remote' :
             remote'[id].latest # Bucket(id).latest =>
                 \E h \in 1..Len(timers) :
                     /\ timers[h].run.pc = "putLatest" /\ timers'[h].run.pc = "done"
                     /\ timers[h].run.versionPut
                     /\ timers[h].run.id = id
                     /\ Stored(Bucket(id), timers[h].run.ts)
                     /\ remote'[id].latest = <<Text(Pointer(timers[h].run.ts))>>]_vars

\* of two runs on one bucket, one had its version PUT refused and the other
\* set the pointer: the pointer names the stored version
PointerAfterVersionWitness ==
    \E g, h \in 1..Len(timers) :
        /\ timers[g].run.pc = "failed" /\ ~timers[g].run.versionPut
        /\ timers[h].run.pc = "done"
        /\ timers[g].run.id = timers[h].run.id
        /\ timers[g].run.ts # timers[h].run.ts
        /\ ~Stored(Bucket(timers[g].run.id), timers[g].run.ts)
        /\ PointerTs(Bucket(timers[h].run.id)) = timers[h].run.ts

\* timer h is set and has neither fired nor been cleared
Armed(h) == timers[h].status = "armed"

\* the save run by timer h is in flight
Saving(h) == timers[h].run.pc \in {"putVersion", "putLatest"}

\* C18: in every reachable state at most one debounce timer is armed for an
\* identity, that is for the passphrase the identity stands for.
OneArmedTimerPerIdentity ==
    \A g, h \in 1..Len(timers) :
        Armed(g) /\ Armed(h) /\ timers[g].passphrase = timers[h].passphrase => g = h

\* C19: the entry of an id is gone once the save run by the timer it held has
\* ended; the entry of a timer that is armed or saving, and has no successor
\* under its id, is in the registry, since only its own save removes it; an
\* id with no timer armed and no save in flight has no entry.
RegistryFollowsSaves ==
    /\ \A h \in 1..Len(timers) :
          timers[h].run.pc \in {"done", "failed"} =>
              ~(timers[h].id \in DOMAIN debounceTimers /\ debounceTimers[timers[h].id] = h)
    /\ \A h \in 1..Len(timers) :
          /\ Armed(h) \/ Saving(h)
          /\ \A g \in 1..Len(timers) :
                timers[g].setAt > timers[h].setAt => timers[g].id # timers[h].id
          => timers[h].id \in DOMAIN debounceTimers /\ debounceTimers[timers[h].id] = h
    /\ \A id \in DOMAIN debounceTimers :
          \E h \in 1..Len(timers) : timers[h].id = id /\ (Armed(h) \/ Saving(h))

\* the runs of saveStateInternal that wrote, or were to write, to bucket id
RunsOn(id) == {h \in 1..Len(timers) : timers[h].run.pc # "none" /\ timers[h].run.id = id}

\* C20: once every run of saveStateInternal on a bucket has ended with both
\* PUTs accepted, the latest pointer holds the largest ts stored in it.
PointerIsHead ==
    \A id \in DOMAIN remote :
        (\A h \in RunsOn(id) : timers[h].run.pc = "done") =>
            \A ts \in DOMAIN remote[id].versions :
                Stored(remote[id], ts) => ts <= PointerTs(remote[id])

\* the mac of the envelope is the HMAC of its salt, iv and ct under the key
\* derived from the passphrase
MacMatches(env, passphrase) ==
    FieldBytes(env, K_mac)
        = HmacSign(HKDF(passphrase, INFO_MAC, 32, Get(env, K_salt).s).val,
                   concatUint8Arrays(<<FieldBytes(env, K_salt), FieldBytes(env, K_iv),
                                       FieldBytes(env, K_ct)>>))

\* C17: verifyAndDecrypt verifies the MAC over salt, iv and ct before it
\* decrypts, and when the MAC does not match it fails at the verification:
\* the AES-GCM decryption is not reached.
MacBeforeDecrypt ==
    codec.phase = "opened" =>
        LET steps == codec.out[1].steps
        IN  /\ \A i \in 1..Len(steps) :
                  steps[i] = "decrypt" => \E j \in 1..(i - 1) : steps[j] = "verify"
            /\ ~MacMatches(codec.env[1], codec.as) =>
                  /\ ~codec.out[1].ok
                  /\ steps[Len(steps)] = "verify"
                  /\ \A i \in 1..Len(steps) : steps[i] # "decrypt"

\* an envelope with one byte of its mac changed, opened under its passphrase
MacBeforeDecryptWitness ==
    /\ codec.phase = "opened" /\ codec.as = codec.passphrase
    /\ "byte" \in codec.altered
    /\ Get(codec.env[1], K_mac)
         # Get(encryptJson(codec.obj, codec.passphrase, codec.salt, codec.iv, 1).val, K_mac)
    /\ ~MacMatches(codec.env[1], codec.as)
    /\ codec.out[1].steps = <<"validate", "decode", "derive", "verify">>

\* C21: a stored version is never overwritten or deleted: no step changes the
\* body stored under a version key, so every run of saveStateInternal writes
\* a key not written before in its bucket and the pointer is the only record
\* that is overwritten.
VersionsImmutable ==
    [][\A id \in DOMAIN remote :
          \A ts \in DOMAIN remote[id].versions :
              Stored(remote[id], ts) =>
                  /\ id \in DOMAIN remote'
                  /\ ts \in DOMAIN remote'[id].versions
                  /\ remote'[id].versions[ts] = remote[id].versions[ts]]_vars

\* C22: after the one run of saveStateInternal there is has ended with both
\* PUTs accepted, a load begun later under the same passphrase, every request
\* answered by the store, returns the state that run saved.
SaveThenLoad ==
    \A h \in 1..Len(timers) :
        /\ load.pc = "done" /\ load.faults = 0
        /\ h \in load.seen /\ timers[h].run.pc = "done"
        /\ \A g \in 1..Len(timers) : g # h => timers[g].run.pc = "none"
        /\ load.passphrase = timers[h].passphrase
        => load.result[1] = Returned(timers[h].stateObj, "none")

\* the PUT of the version of the h-th call's payload has been made
Submitted(h) == timers[h].run.pc \in {"putLatest", "done", "failed"}

\* C23: once the saveState calls have stopped, the payload of the last call
\* is eventually submitted by a version PUT, whatever the order in which the
\* calls' deriveId resolved, the timers fired and earlier saves ended.
LastSaveSubmitted ==
    <>[](timers # <<>> => Submitted(Len(timers)))
====
